---- MODULE Spec2Model ----
(***************************************************************************)
(* Model of test-server/srv.py: a Flask server that synthesises fake       *)
(* credentials, embeds them in documents and records them in the           *)
(* process-wide SECRET_REGISTRY.  Every request runs in its own thread of   *)
(* the server; a thread can be pre-empted between any two statements that   *)
(* touch shared state, so each such statement is a separate step.           *)
(* Strings that are scanned or compared character by character are          *)
(* sequences of one-character strings.                                      *)
(***************************************************************************)
EXTENDS Integers, Sequences, FiniteSets, TLC

\* ---------------------------------------------------------------- bounds
\* Number of server threads that can handle requests at the same time.
NumThreads == 2
\* Number of requests for a scenario the server accepts in one run.
MaxRequests == 2
\* Number of requests for /secret-registry the server accepts in one run.
MaxReads == 2
\* The random source starts in one of the states 0..MaxSeed.
MaxSeed == 1
\* Number of times, in one run, the scheduler takes the processor from a thread
\* that is in the middle of a request and gives it to another.
MaxPreempt == 1

Threads == 1..NumThreads

VARIABLES
    SECRET_REGISTRY,  \* the dict of line 11: generated_at and endpoints (name -> list object)
    heap,             \* the list objects created by line 22, by identity
    registry_file,    \* static/secret_registry.json
    static_js,        \* static/secrets-<endpoint>.js, by endpoint
    rng,              \* state of the process-wide random source
    clock,            \* what datetime.now() returns next
    pc,               \* per thread: the statement it executes next
    handler,          \* per thread: the view function serving its request
    locals,           \* per thread: the local variables of the view function
    frame,            \* per thread: the log_secret call in progress
    fobj,             \* per thread: the file object of the with block in progress
    resp,             \* per thread: the response of its last request
    started,          \* requests for a scenario accepted so far
    reads,            \* requests for /secret-registry accepted so far
    issued,           \* history: per endpoint, the arguments of the log_secret calls made, in order
    writes,           \* history: number of updates log_secret has made to the registry
    delivered,        \* history: secret values embedded in a returned document or written to an artifact
    running,          \* scheduler: the thread that took the last step, if it is still in a request (else 0)
    preempts          \* scheduler: pre-emptions so far

vars == <<SECRET_REGISTRY, heap, registry_file, static_js, rng, clock, pc, handler,
          locals, frame, fobj, resp, started, reads, issued, writes, delivered, running, preempts>>

\* ------------------------------------------------------- strings, random
ascii_lowercase == <<"a","b","c","d","e","f","g","h","i","j","k","l","m","n","o","p","q","r","s","t","u","v","w","x","y","z">>
ascii_uppercase == <<"A","B","C","D","E","F","G","H","I","J","K","L","M","N","O","P","Q","R","S","T","U","V","W","X","Y","Z">>
digits == <<"0","1","2","3","4","5","6","7","8","9">>
ascii_letters == ascii_lowercase \o ascii_uppercase

\* The character ` of the JavaScript template literals, which cannot be written in a string here.
Backquote == "<backquote>"

Range(s) == {s[i] : i \in 1..Len(s)}

\* The character sets the generate_* functions draw from.
UpperDigits == Range(ascii_uppercase \o digits)
LettersDigits == Range(ascii_letters \o digits)

\* The process-wide generator of the random module: a deterministic generator
\* seeded at start-up. Its state counts the draws made so far, from the seed;
\* RngOutput scrambles the state into the number a draw returns.
RngAt(s, n) == (s + n) % 128

RngOutput(s) == (s * 37 + 11) % 128

\* random.choice(alphabet) in generator state s
random_choice(alphabet, s) == alphabet[(RngOutput(s) % Len(alphabet)) + 1]

\* ''.join(random.choice(alphabet) for _ in range(n)), starting in state s
join_choices(alphabet, n, s) == [i \in 1..n |-> random_choice(alphabet, RngAt(s, i - 1))]

\* ------------------------------------------------------------ generators
\* generate_aws_key with the prefix length not subtracted from the total.
generate_aws_key_long(s) ==
    LET prefix == <<"A","K","I","A">>
        suffix_length == 20
        suffix == join_choices(ascii_uppercase \o digits, suffix_length, s)
    IN  prefix \o suffix

generate_aws_key(s) ==
    LET prefix == <<"A","K","I","A">>
        suffix_length == 20 - Len(prefix)
        suffix == join_choices(ascii_uppercase \o digits, suffix_length, s)
    IN  prefix \o suffix

generate_api_key(s) == join_choices(ascii_letters \o digits, 32, s)

generate_github_token(s) == <<"g","h","p","_">> \o join_choices(ascii_letters \o digits, 36, s)

\* ------------------------------------------------------------ view functions
Handlers == {"endpoint_one", "endpoint_two", "endpoint_three", "endpoint_four",
             "endpoint_six_static", "endpoint_seven_fixed_patterns",
             "endpoint_eight_fixed_patterns_no_groups", "secret_registry"}

\* The scenario id of a view function: the name it logs under and prefixes its secrets with.
endpoint_id(h) ==
    CASE h = "endpoint_one" -> "ep1"
      [] h = "endpoint_two" -> "ep2"
      [] h = "endpoint_three" -> "ep3"
      [] h = "endpoint_four" -> "ep4"
      [] h = "endpoint_six_static" -> "ep6"
      [] h = "endpoint_seven_fixed_patterns" -> "ep7"
      [] h = "endpoint_eight_fixed_patterns_no_groups" -> "ep8"
      [] OTHER -> "secret-registry"

EndpointIds == {endpoint_id(h) : h \in Handlers \ {"secret_registry"}}

endpoint_chars(e) ==
    CASE e = "ep1" -> <<"e","p","1">>
      [] e = "ep2" -> <<"e","p","2">>
      [] e = "ep3" -> <<"e","p","3">>
      [] e = "ep4" -> <<"e","p","4">>
      [] e = "ep6" -> <<"e","p","6">>
      [] e = "ep7" -> <<"e","p","7">>
      [] OTHER -> <<"e","p","8">>

\* The local variables a view function assigns before its first call, with the
\* random source in state s: the generated values or the fixed literals.
endpoint_one_locals(s) ==
    [api_key |-> generate_api_key(s),
     api_key_2 |-> generate_api_key(RngAt(s, 32)),
     api_key_3 |-> generate_api_key(RngAt(s, 64))]

endpoint_two_locals(s) ==
    [aws_key |-> generate_aws_key(s),
     aws_key_2 |-> generate_aws_key(RngAt(s, 16)),
     aws_key_3 |-> generate_aws_key(RngAt(s, 32))]

endpoint_three_locals(s) ==
    [github_token |-> generate_github_token(s),
     github_token_2 |-> generate_github_token(RngAt(s, 36)),
     github_token_3 |-> generate_github_token(RngAt(s, 72))]

endpoint_four_locals(s) ==
    [aws_key |-> generate_aws_key(s),
     api_key |-> generate_api_key(RngAt(s, 16)),
     github_token |-> generate_github_token(RngAt(s, 48)),
     aws_key_2 |-> generate_aws_key(RngAt(s, 84)),
     api_key_2 |-> generate_api_key(RngAt(s, 100)),
     github_token_2 |-> generate_github_token(RngAt(s, 132))]

endpoint_six_static_locals ==
    [aws_key |-> <<"A","K","I","A","I","O","S","F","O","D","N","N","7","E","X","A","M","P","L","E">>,
         github_token |-> <<"g","h","p","_","a","B","c","D","e","F","g","H","i","J","k","L","m","N","o","P","q","R","s","T","u","V","w","X","y","Z","0","1","2","3","4","5","6","7","8","9">>,
         aws_key_2 |-> <<"A","K","I","A","I","4","4","Q","H","8","D","H","B","E","X","A","M","P","L","E">>,
         github_token_2 |-> <<"g","h","p","_","1","2","3","4","5","6","7","8","9","0","a","b","c","d","e","f","g","h","i","j","k","l","m","n","o","p","q","r","s","t","u","v","w","x","y","z","A","B">>,
         static_github_token |-> <<"g","h","p","_","e","p","6","_","S","t","a","t","i","c","T","o","k","e","n","F","o","r","T","e","s","t","i","n","g","1","2","3","4","5","6","7","8","9","0","A","B","C">>]

endpoint_seven_fixed_patterns_locals ==
    [aws_key |-> <<"A","K","I","A","I","O","S","F","O","D","N","N","7","E","X","A","M","P","L","0">>,
         github_token |-> <<"g","h","p","_","a","B","c","D","e","F","g","H","i","J","k","L","m","N","o","P","q","R","s","T","u","V","w","X","y","Z","0","1","2","3","4","5","6","7","8","9">>,
         gcp_key |-> <<"A","I","z","a","S","y","1","2","3","4","5","6","7","8","9","0","a","b","c","d","e","f","g","h","i","j","k","l","m","n","o","p","q","r","s","t","u","v","w">>,
         aws_key_2 |-> <<"A","K","I","A","I","4","4","Q","H","8","D","H","B","E","X","A","M","P","L","E">>,
         github_token_2 |-> <<"g","h","p","_","9","8","7","6","5","4","3","2","1","0","z","y","x","w","v","u","t","s","r","q","p","o","n","m","l","k","j","i","h","g","f","e","d","c","b","a","Z">>,
         gcp_key_2 |-> <<"A","I","z","a","S","y","X","X","X","X","X","X","X","X","X","X","X","X","X","X","X","X","X","X","X","X","X","X","X","X","X","X","X","X","X","X","X","X","X","X">>]

endpoint_eight_fixed_patterns_no_groups_locals ==
    [npm_token |-> <<"n","p","m","_","n","3","A","6","g","Z","x","L","5","P","q","W","s","C","t","V","m","R","b","K","y","D","j","e","F","H","u","Q","i","T","w","Y","0","9","2","1">>,
         npm_token_2 |-> <<"n","p","m","_","X","7","Y","8","Z","9","A","1","B","2","C","3","D","4","E","5","F","6","G","7","H","8","I","9","J","0","K","1","L","2","M","3","N","4","O","5">>]

HandlerLocals(h, s) ==
    CASE h = "endpoint_one" -> endpoint_one_locals(s)
      [] h = "endpoint_two" -> endpoint_two_locals(s)
      [] h = "endpoint_three" -> endpoint_three_locals(s)
      [] h = "endpoint_four" -> endpoint_four_locals(s)
      [] h = "endpoint_six_static" -> endpoint_six_static_locals
      [] h = "endpoint_seven_fixed_patterns" -> endpoint_seven_fixed_patterns_locals
      [] OTHER -> endpoint_eight_fixed_patterns_no_groups_locals

\* Number of random.choice calls the generate_* calls of a view function make.
HandlerDraws(h) ==
    CASE h = "endpoint_one" -> 32 + 32 + 32
      [] h = "endpoint_two" -> 16 + 16 + 16
      [] h = "endpoint_three" -> 36 + 36 + 36
      [] h = "endpoint_four" -> 16 + 32 + 36 + 16 + 32 + 36
      [] OTHER -> 0

\* Helpers of the documents: json.dumps of a string, and one "key": "value" member
\* of the object jsonify returns.
json_escape(s) ==
    LET RECURSIVE esc(_, _)
        \* the image of s[lo..hi], by halves
        esc(lo, hi) ==
            IF lo > hi THEN <<>>
            ELSE IF lo = hi
                 THEN (IF s[lo] \in {"\"", "\\"} THEN <<"\\", s[lo]>> ELSE <<s[lo]>>)
                 ELSE esc(lo, (lo + hi) \div 2) \o esc((lo + hi) \div 2 + 1, hi)
    IN  esc(1, Len(s))

json_dumps_str(s) == <<"\"">> \o json_escape(s) \o <<"\"">>

jsonify_field(key, value) == json_dumps_str(key) \o <<":", " ">> \o json_dumps_str(value)
\* ------------------------------------------------ documents and artifacts
\* A document is the sequence of the lines of the response that embed a secret or
\* reference the artifact, without their indentation; the other lines are fixed
\* text. Each line carries its rendering context, the kind of secret it embeds
\* and the values interpolated into it, in order.

\* html_content of endpoint_one
endpoint_one_html(L) == <<
    [line |-> 95, context |-> "ExternalFileReference", kind |-> "github_token",
       text |-> <<"<","s","c","r","i","p","t"," ","s","r","c","=","\"","/","s","t","a","t","i","c","/","s","e","c","r","e","t","s","-","e","p","1",".","j","s","\"",">","<","/","s","c","r","i","p","t",">">>,
       secrets |-> <<>>],
    [line |-> 104, context |-> "JsLiteral", kind |-> "api_key",
       text |-> <<"a","p","i","K","e","y",":"," ","\"","e","p","1","-">> \o L.api_key \o <<"\"",",">>,
       secrets |-> <<L.api_key>>],
    [line |-> 110, context |-> "JsonString", kind |-> "api_key",
       text |-> <<"c","o","n","s","t"," ","j","s","o","n","D","a","t","a"," ","="," ",Backquote,"{","\"","s","e","c","r","e","t","\"",":","\"","e","p","1","-">> \o L.api_key_2 \o <<"\"","}",Backquote,";">>,
       secrets |-> <<L.api_key_2>>],
    [line |-> 113, context |-> "EscapedJsonString", kind |-> "api_key",
       text |-> <<"c","o","n","s","t"," ","e","s","c","a","p","e","d","J","s","o","n"," ","="," ","\"","\\","\"","a","p","i","K","e","y","\\","\"",":","\\","\"","e","p","1","-">> \o L.api_key_3 \o <<"\\","\"","\"",";">>,
       secrets |-> <<L.api_key_3>>],
    [line |-> 116, context |-> "UrlQueryParam", kind |-> "api_key",
       text |-> <<"c","o","n","s","t"," ","f","u","l","l","U","R","L"," ","="," ","\"","h","t","t","p","s",":","/","/","s","i","t","e",".","c","o","m","/","a","p","i",".","p","h","p","?","s","e","c","r","e","t","=","e","p","1","-">> \o L.api_key \o <<"&","t","o","k","e","n","=","e","p","1","-">> \o L.api_key_2 \o <<"&","p","a","g","e","=","1","\"",";">>,
       secrets |-> <<L.api_key, L.api_key_2>>] >>

\* html_content of endpoint_three
endpoint_three_html(L) == <<
    [line |-> 179, context |-> "ExternalFileReference", kind |-> "github_token",
       text |-> <<"<","s","c","r","i","p","t"," ","s","r","c","=","\"","/","s","t","a","t","i","c","/","s","e","c","r","e","t","s","-","e","p","3",".","j","s","\"",">","<","/","s","c","r","i","p","t",">">>,
       secrets |-> <<>>],
    [line |-> 189, context |-> "RawText", kind |-> "github_token",
       text |-> <<"'","A","u","t","h","o","r","i","z","a","t","i","o","n","'",":"," ","'","t","o","k","e","n"," ","e","p","3","-">> \o L.github_token \o <<"'">>,
       secrets |-> <<L.github_token>>],
    [line |-> 203, context |-> "JsonString", kind |-> "github_token",
       text |-> <<"c","o","n","s","t"," ","g","i","t","h","u","b","C","o","n","f","i","g"," ","="," ",Backquote,"{","\"","g","i","t","h","u","b","_","t","o","k","e","n","\"",":","\"","e","p","3","-">> \o L.github_token_2 \o <<"\"","}",Backquote,";">>,
       secrets |-> <<L.github_token_2>>],
    [line |-> 206, context |-> "EscapedJsonString", kind |-> "github_token",
       text |-> <<"c","o","n","s","t"," ","e","s","c","a","p","e","d","G","i","t","h","u","b","J","s","o","n"," ","="," ","\"","\\","\"","t","o","k","e","n","\\","\"",":","\\","\"","e","p","3","-">> \o L.github_token_3 \o <<"\\","\"","\"",";">>,
       secrets |-> <<L.github_token_3>>],
    [line |-> 209, context |-> "UrlQueryParam", kind |-> "github_token",
       text |-> <<"c","o","n","s","t"," ","g","i","t","h","u","b","U","R","L"," ","="," ","\"","h","t","t","p","s",":","/","/","g","i","t","h","u","b",".","c","o","m","/","a","p","i","/","u","s","e","r","?","t","o","k","e","n","=","e","p","3","-">> \o L.github_token \o <<"&","a","c","c","e","s","s","_","t","o","k","e","n","=","e","p","3","-">> \o L.github_token_2 \o <<"\"",";">>,
       secrets |-> <<L.github_token, L.github_token_2>>] >>

\* html_content of endpoint_four
endpoint_four_html(L) == <<
    [line |-> 251, context |-> "ExternalFileReference", kind |-> "github_token",
       text |-> <<"<","s","c","r","i","p","t"," ","s","r","c","=","\"","/","s","t","a","t","i","c","/","s","e","c","r","e","t","s","-","e","p","4",".","j","s","\"",">","<","/","s","c","r","i","p","t",">">>,
       secrets |-> <<>>],
    [line |-> 258, context |-> "HtmlComment", kind |-> "aws_key",
       text |-> <<"<","!","-","-"," ","A","W","S"," ","A","c","c","e","s","s"," ","K","e","y",":"," ","e","p","4","-">> \o L.aws_key \o <<" ","-","-",">">>,
       secrets |-> <<L.aws_key>>],
    [line |-> 263, context |-> "RawText", kind |-> "aws_key",
       text |-> <<"<","p",">","A","c","c","e","s","s"," ","K","e","y"," ","I","D",":"," ","A","K","I","A","I","O","S","F","O","D","N","N","7","E","X","A","M","P","L","E","<","/","p",">">>,
       secrets |-> <<<<"A","K","I","A","I","O","S","F","O","D","N","N","7","E","X","A","M","P","L","E">>>>],
    [line |-> 264, context |-> "RawText", kind |-> "aws_key",
       text |-> <<"<","p",">","S","e","c","r","e","t"," ","A","c","c","e","s","s"," ","K","e","y",":"," ","e","p","4","-">> \o L.aws_key \o <<"<","/","p",">">>,
       secrets |-> <<L.aws_key>>],
    [line |-> 270, context |-> "JsLiteral", kind |-> "api_key",
       text |-> <<"a","p","i","K","e","y",":"," ","\"","e","p","4","-">> \o L.api_key \o <<"\"",",">>,
       secrets |-> <<L.api_key>>],
    [line |-> 280, context |-> "JsLiteral", kind |-> "github_token",
       text |-> <<"'","A","u","t","h","o","r","i","z","a","t","i","o","n","'",":"," ","'","t","o","k","e","n"," ","e","p","4","-">> \o L.github_token \o <<"'">>,
       secrets |-> <<L.github_token>>],
    [line |-> 292, context |-> "JsonString", kind |-> "aws_key",
       text |-> <<"c","o","n","s","t"," ","a","w","s","C","o","n","f","i","g"," ","="," ",Backquote,"{","\"","a","w","s","_","a","c","c","e","s","s","_","k","e","y","\"",":","\"","e","p","4","-">> \o L.aws_key_2 \o <<"\"",",","\"","r","e","g","i","o","n","\"",":","\"","u","s","-","w","e","s","t","-","2","\"","}",Backquote,";">>,
       secrets |-> <<L.aws_key_2>>],
    [line |-> 293, context |-> "JsonString", kind |-> "api_key",
       text |-> <<"c","o","n","s","t"," ","a","p","i","C","o","n","f","i","g"," ","="," ",Backquote,"{","\"","a","p","i","_","k","e","y","\"",":","\"","e","p","4","-">> \o L.api_key_2 \o <<"\"",",","\"","t","i","m","e","o","u","t","\"",":","5","0","0","0","}",Backquote,";">>,
       secrets |-> <<L.api_key_2>>],
    [line |-> 294, context |-> "JsonString", kind |-> "github_token",
       text |-> <<"c","o","n","s","t"," ","g","i","t","h","u","b","C","o","n","f","i","g"," ","="," ",Backquote,"{","\"","g","i","t","h","u","b","_","t","o","k","e","n","\"",":","\"","e","p","4","-">> \o L.github_token_2 \o <<"\"","}",Backquote,";">>,
       secrets |-> <<L.github_token_2>>],
    [line |-> 297, context |-> "EscapedJsonString", kind |-> "aws_key",
       text |-> <<"c","o","n","s","t"," ","e","s","c","a","p","e","d","A","w","s"," ","="," ","\"","\\","\"","a","w","s","_","k","e","y","\\","\"",":","\\","\"","e","p","4","-">> \o L.aws_key \o <<"\\","\"","\"",";">>,
       secrets |-> <<L.aws_key>>],
    [line |-> 298, context |-> "EscapedJsonString", kind |-> "api_key",
       text |-> <<"c","o","n","s","t"," ","e","s","c","a","p","e","d","A","p","i"," ","="," ","\"","\\","\"","a","p","i","K","e","y","\\","\"",":","\\","\"","e","p","4","-">> \o L.api_key_2 \o <<"\\","\"","\"",";">>,
       secrets |-> <<L.api_key_2>>],
    [line |-> 299, context |-> "EscapedJsonString", kind |-> "github_token",
       text |-> <<"c","o","n","s","t"," ","e","s","c","a","p","e","d","G","i","t","h","u","b"," ","="," ","\"","\\","\"","g","i","t","h","u","b","_","t","o","k","e","n","\\","\"",":","\\","\"","e","p","4","-">> \o L.github_token_2 \o <<"\\","\"","\"",";">>,
       secrets |-> <<L.github_token_2>>],
    [line |-> 302, context |-> "UrlQueryParam", kind |-> "aws_key",
       text |-> <<"c","o","n","s","t"," ","a","w","s","U","R","L"," ","="," ","\"","h","t","t","p","s",":","/","/","c","o","n","s","o","l","e",".","a","w","s",".","a","m","a","z","o","n",".","c","o","m","/","s","3","?","a","c","c","e","s","s","_","k","e","y","=","e","p","4","-">> \o L.aws_key \o <<"&","s","e","c","r","e","t","=","e","p","4","-">> \o L.aws_key_2 \o <<"\"",";">>,
       secrets |-> <<L.aws_key, L.aws_key_2>>],
    [line |-> 303, context |-> "UrlQueryParam", kind |-> "api_key",
       text |-> <<"c","o","n","s","t"," ","a","p","i","U","R","L"," ","="," ","\"","h","t","t","p","s",":","/","/","a","p","i",".","s","e","r","v","i","c","e",".","c","o","m","/","e","n","d","p","o","i","n","t","?","k","e","y","=","e","p","4","-">> \o L.api_key \o <<"&","t","o","k","e","n","=","e","p","4","-">> \o L.api_key_2 \o <<"\"",";">>,
       secrets |-> <<L.api_key, L.api_key_2>>],
    [line |-> 304, context |-> "UrlQueryParam", kind |-> "github_token",
       text |-> <<"c","o","n","s","t"," ","g","i","t","h","u","b","U","R","L"," ","="," ","\"","h","t","t","p","s",":","/","/","a","p","i",".","g","i","t","h","u","b",".","c","o","m","/","r","e","p","o","s","/","u","s","e","r","/","r","e","p","o","?","t","o","k","e","n","=","e","p","4","-">> \o L.github_token \o <<"&","a","c","c","e","s","s","_","t","o","k","e","n","=","e","p","4","-">> \o L.github_token_2 \o <<"\"",";">>,
       secrets |-> <<L.github_token, L.github_token_2>>],
    [line |-> 311, context |-> "RawText", kind |-> "github_token",
       text |-> <<"t","o","k","e","n",":"," ","\"","e","p","4","-","g","h","p","_">> \o SubSeq(L.github_token, 5, Len(L.github_token)) \o <<"\"",",">>,
       secrets |-> <<L.github_token>>] >>

\* html_content of endpoint_six_static
endpoint_six_static_html(L) == <<
    [line |-> 366, context |-> "ExternalFileReference", kind |-> "github_token",
       text |-> <<"<","s","c","r","i","p","t"," ","s","r","c","=","\"","/","s","t","a","t","i","c","/","s","e","c","r","e","t","s","-","e","p","6",".","j","s","\"",">","<","/","s","c","r","i","p","t",">">>,
       secrets |-> <<>>],
    [line |-> 375, context |-> "RawText", kind |-> "aws_key",
       text |-> <<"<","p",">","S","e","c","r","e","t"," ","A","c","c","e","s","s"," ","K","e","y",":"," ","e","p","6","-">> \o L.aws_key \o <<"<","/","p",">">>,
       secrets |-> <<L.aws_key>>],
    [line |-> 382, context |-> "JsLiteral", kind |-> "github_token",
       text |-> <<"'","A","u","t","h","o","r","i","z","a","t","i","o","n","'",":"," ","'","t","o","k","e","n"," ","e","p","6","-">> \o L.github_token \o <<"'">>,
       secrets |-> <<L.github_token>>],
    [line |-> 394, context |-> "JsonString", kind |-> "aws_key",
       text |-> <<"c","o","n","s","t"," ","a","w","s","D","a","t","a"," ","="," ",Backquote,"{","\"","a","w","s","_","a","c","c","e","s","s","_","k","e","y","\"",":","\"","e","p","6","-">> \o L.aws_key_2 \o <<"\"","}",Backquote,";">>,
       secrets |-> <<L.aws_key_2>>],
    [line |-> 395, context |-> "JsonString", kind |-> "github_token",
       text |-> <<"c","o","n","s","t"," ","g","i","t","h","u","b","D","a","t","a"," ","="," ",Backquote,"{","\"","g","i","t","h","u","b","_","t","o","k","e","n","\"",":","\"","e","p","6","-">> \o L.github_token_2 \o <<"\"","}",Backquote,";">>,
       secrets |-> <<L.github_token_2>>],
    [line |-> 398, context |-> "EscapedJsonString", kind |-> "aws_key",
       text |-> <<"c","o","n","s","t"," ","e","s","c","a","p","e","d","A","w","s","J","s","o","n"," ","="," ","\"","\\","\"","a","w","s","_","s","e","c","r","e","t","\\","\"",":","\\","\"","e","p","6","-">> \o L.aws_key \o <<"\\","\"","\"",";">>,
       secrets |-> <<L.aws_key>>],
    [line |-> 399, context |-> "EscapedJsonString", kind |-> "github_token",
       text |-> <<"c","o","n","s","t"," ","e","s","c","a","p","e","d","G","i","t","h","u","b","J","s","o","n"," ","="," ","\"","\\","\"","t","o","k","e","n","\\","\"",":","\\","\"","e","p","6","-">> \o L.github_token_2 \o <<"\\","\"","\"",";">>,
       secrets |-> <<L.github_token_2>>],
    [line |-> 402, context |-> "UrlQueryParam", kind |-> "aws_key",
       text |-> <<"c","o","n","s","t"," ","a","w","s","C","o","n","s","o","l","e","U","R","L"," ","="," ","\"","h","t","t","p","s",":","/","/","c","o","n","s","o","l","e",".","a","w","s",".","a","m","a","z","o","n",".","c","o","m","/","i","a","m","?","a","c","c","e","s","s","_","k","e","y","=","e","p","6","-">> \o L.aws_key \o <<"&","s","e","c","r","e","t","_","k","e","y","=","e","p","6","-">> \o L.aws_key_2 \o <<"\"",";">>,
       secrets |-> <<L.aws_key, L.aws_key_2>>],
    [line |-> 403, context |-> "UrlQueryParam", kind |-> "github_token",
       text |-> <<"c","o","n","s","t"," ","g","i","t","h","u","b","A","p","i","U","R","L"," ","="," ","\"","h","t","t","p","s",":","/","/","a","p","i",".","g","i","t","h","u","b",".","c","o","m","/","u","s","e","r","/","r","e","p","o","s","?","t","o","k","e","n","=","e","p","6","-">> \o L.github_token \o <<"&","a","c","c","e","s","s","_","t","o","k","e","n","=","e","p","6","-">> \o L.github_token_2 \o <<"\"",";">>,
       secrets |-> <<L.github_token, L.github_token_2>>] >>

\* html_content of endpoint_seven_fixed_patterns
endpoint_seven_fixed_patterns_html(L) == <<
    [line |-> 444, context |-> "ExternalFileReference", kind |-> "github_token",
       text |-> <<"<","s","c","r","i","p","t"," ","s","r","c","=","\"","/","s","t","a","t","i","c","/","s","e","c","r","e","t","s","-","e","p","7",".","j","s","\"",">","<","/","s","c","r","i","p","t",">">>,
       secrets |-> <<>>],
    [line |-> 453, context |-> "RawText", kind |-> "aws_key",
       text |-> <<"<","p",">","A","W","S"," ","A","c","c","e","s","s"," ","K","e","y",":"," ","e","p","7","-">> \o L.aws_key \o <<"<","/","p",">">>,
       secrets |-> <<L.aws_key>>],
    [line |-> 458, context |-> "RawText", kind |-> "gcp_key",
       text |-> <<"<","p",">","G","C","P"," ","A","P","I"," ","K","e","y",":"," ","e","p","7","-">> \o L.gcp_key \o <<"<","/","p",">">>,
       secrets |-> <<L.gcp_key>>],
    [line |-> 463, context |-> "RawText", kind |-> "github_token",
       text |-> <<"<","p",">","G","i","t","H","u","b"," ","P","A","T",":"," ","e","p","7","-">> \o L.github_token \o <<"<","/","p",">">>,
       secrets |-> <<L.github_token>>],
    [line |-> 468, context |-> "JsonString", kind |-> "aws_key",
       text |-> <<"c","o","n","s","t"," ","a","w","s","C","o","n","f","i","g"," ","="," ",Backquote,"{","\"","a","w","s","_","a","c","c","e","s","s","_","k","e","y","\"",":","\"","e","p","7","-">> \o L.aws_key_2 \o <<"\"",",","\"","r","e","g","i","o","n","\"",":","\"","u","s","-","w","e","s","t","-","2","\"","}",Backquote,";">>,
       secrets |-> <<L.aws_key_2>>],
    [line |-> 469, context |-> "JsonString", kind |-> "gcp_key",
       text |-> <<"c","o","n","s","t"," ","g","c","p","C","o","n","f","i","g"," ","="," ",Backquote,"{","\"","g","c","p","_","a","p","i","_","k","e","y","\"",":","\"","e","p","7","-">> \o L.gcp_key_2 \o <<"\"",",","\"","p","r","o","j","e","c","t","\"",":","\"","t","e","s","t","-","p","r","o","j","e","c","t","\"","}",Backquote,";">>,
       secrets |-> <<L.gcp_key_2>>],
    [line |-> 470, context |-> "JsonString", kind |-> "github_token",
       text |-> <<"c","o","n","s","t"," ","g","i","t","h","u","b","C","o","n","f","i","g"," ","="," ",Backquote,"{","\"","g","i","t","h","u","b","_","t","o","k","e","n","\"",":","\"","e","p","7","-">> \o L.github_token_2 \o <<"\"",",","\"","u","s","e","r","n","a","m","e","\"",":","\"","t","e","s","t","u","s","e","r","\"","}",Backquote,";">>,
       secrets |-> <<L.github_token_2>>],
    [line |-> 473, context |-> "EscapedJsonString", kind |-> "aws_key",
       text |-> <<"c","o","n","s","t"," ","e","s","c","a","p","e","d","A","w","s"," ","="," ","\"","\\","\"","a","w","s","_","k","e","y","\\","\"",":","\\","\"","e","p","7","-">> \o L.aws_key \o <<"\\","\"","\"",";">>,
       secrets |-> <<L.aws_key>>],
    [line |-> 474, context |-> "EscapedJsonString", kind |-> "gcp_key",
       text |-> <<"c","o","n","s","t"," ","e","s","c","a","p","e","d","G","c","p"," ","="," ","\"","\\","\"","g","c","p","_","k","e","y","\\","\"",":","\\","\"","e","p","7","-">> \o L.gcp_key_2 \o <<"\\","\"","\"",";">>,
       secrets |-> <<L.gcp_key_2>>],
    [line |-> 475, context |-> "EscapedJsonString", kind |-> "github_token",
       text |-> <<"c","o","n","s","t"," ","e","s","c","a","p","e","d","G","i","t","h","u","b"," ","="," ","\"","\\","\"","g","i","t","h","u","b","_","t","o","k","e","n","\\","\"",":","\\","\"","e","p","7","-">> \o L.github_token_2 \o <<"\\","\"","\"",";">>,
       secrets |-> <<L.github_token_2>>],
    [line |-> 478, context |-> "UrlQueryParam", kind |-> "aws_key",
       text |-> <<"c","o","n","s","t"," ","a","w","s","U","R","L"," ","="," ","\"","h","t","t","p","s",":","/","/","s","3",".","a","m","a","z","o","n","a","w","s",".","c","o","m","/","b","u","c","k","e","t","?","A","W","S","A","c","c","e","s","s","K","e","y","I","d","=","e","p","7","-">> \o L.aws_key \o <<"&","S","e","c","r","e","t","K","e","y","=","e","p","7","-">> \o L.aws_key_2 \o <<"\"",";">>,
       secrets |-> <<L.aws_key, L.aws_key_2>>],
    [line |-> 479, context |-> "UrlQueryParam", kind |-> "gcp_key",
       text |-> <<"c","o","n","s","t"," ","g","c","p","U","R","L"," ","="," ","\"","h","t","t","p","s",":","/","/","g","o","o","g","l","e","a","p","i","s",".","c","o","m","/","s","t","o","r","a","g","e","/","v","1","/","b","/","b","u","c","k","e","t","?","k","e","y","=","e","p","7","-">> \o L.gcp_key \o <<"&","a","p","i","_","k","e","y","=","e","p","7","-">> \o L.gcp_key_2 \o <<"\"",";">>,
       secrets |-> <<L.gcp_key, L.gcp_key_2>>],
    [line |-> 480, context |-> "UrlQueryParam", kind |-> "github_token",
       text |-> <<"c","o","n","s","t"," ","g","i","t","h","u","b","U","R","L"," ","="," ","\"","h","t","t","p","s",":","/","/","a","p","i",".","g","i","t","h","u","b",".","c","o","m","/","u","s","e","r","?","t","o","k","e","n","=","e","p","7","-">> \o L.github_token \o <<"&","a","c","c","e","s","s","_","t","o","k","e","n","=","e","p","7","-">> \o L.github_token_2 \o <<"\"",";">>,
       secrets |-> <<L.github_token, L.github_token_2>>] >>

\* html_content of endpoint_eight_fixed_patterns_no_groups
endpoint_eight_fixed_patterns_no_groups_html(L) == <<
    [line |-> 520, context |-> "RawText", kind |-> "npm_token",
       text |-> <<"<","p",">","N","P","M"," ","T","o","k","e","n",":"," ","e","p","8","-">> \o L.npm_token \o <<"<","/","p",">">>,
       secrets |-> <<L.npm_token>>],
    [line |-> 525, context |-> "JsonString", kind |-> "npm_token",
       text |-> <<"c","o","n","s","t"," ","n","p","m","C","o","n","f","i","g"," ","="," ",Backquote,"{","\"","n","p","m","_","t","o","k","e","n","\"",":","\"","e","p","8","-">> \o L.npm_token_2 \o <<"\"",",","\"","r","e","g","i","s","t","r","y","\"",":","\"","h","t","t","p","s",":","/","/","r","e","g","i","s","t","r","y",".","n","p","m","j","s",".","o","r","g","\"","}",Backquote,";">>,
       secrets |-> <<L.npm_token_2>>],
    [line |-> 528, context |-> "EscapedJsonString", kind |-> "npm_token",
       text |-> <<"c","o","n","s","t"," ","e","s","c","a","p","e","d","N","p","m","J","s","o","n"," ","="," ","\"","\\","\"","n","p","m","_","t","o","k","e","n","\\","\"",":","\\","\"","e","p","8","-">> \o L.npm_token \o <<"\\","\"","\"",";">>,
       secrets |-> <<L.npm_token>>],
    [line |-> 531, context |-> "UrlQueryParam", kind |-> "npm_token",
       text |-> <<"c","o","n","s","t"," ","n","p","m","U","R","L"," ","="," ","\"","h","t","t","p","s",":","/","/","r","e","g","i","s","t","r","y",".","n","p","m","j","s",".","o","r","g","/","p","a","c","k","a","g","e","?","t","o","k","e","n","=","e","p","8","-">> \o L.npm_token \o <<"&","a","u","t","h","_","t","o","k","e","n","=","e","p","8","-">> \o L.npm_token_2 \o <<"\"",";">>,
       secrets |-> <<L.npm_token, L.npm_token_2>>] >>

\* the JSON object of endpoint_two
endpoint_two_json(L) == <<
    [line |-> 149, context |-> "JsonString", kind |-> "aws_key",
       text |-> jsonify_field(<<"a","w","s","_","a","c","c","e","s","s","_","k","e","y">>, <<"e","p","2","-">> \o L.aws_key),
       secrets |-> <<L.aws_key>>],
    [line |-> 153, context |-> "JsonString", kind |-> "aws_key",
       text |-> jsonify_field(<<"j","s","o","n","_","d","a","t","a">>, <<"{","\"","a","w","s","_","s","e","c","r","e","t","\"",":","\"","e","p","2","-">> \o L.aws_key_2 \o <<"\"","}">>),
       secrets |-> <<L.aws_key_2>>],
    [line |-> 154, context |-> "EscapedJsonString", kind |-> "aws_key",
       text |-> jsonify_field(<<"e","s","c","a","p","e","d","_","j","s","o","n">>, <<"\\","\"","a","w","s","_","k","e","y","\\","\"",":","\\","\"","e","p","2","-">> \o L.aws_key_3 \o <<"\\","\"">>),
       secrets |-> <<L.aws_key_3>>],
    [line |-> 155, context |-> "UrlQueryParam", kind |-> "aws_key",
       text |-> jsonify_field(<<"f","u","l","l","_","u","r","l">>, <<"h","t","t","p","s",":","/","/","a","w","s",".","a","m","a","z","o","n",".","c","o","m","/","c","o","n","s","o","l","e","?","a","c","c","e","s","s","_","k","e","y","=","e","p","2","-">> \o L.aws_key \o <<"&","s","e","c","r","e","t","=","e","p","2","-">> \o L.aws_key_2 \o <<"&","r","e","g","i","o","n","=","u","s","-","e","a","s","t","-","1">>),
       secrets |-> <<L.aws_key, L.aws_key_2>>] >>

\* secrets_js_text with a slip in line 69: the last line interpolates the endpoint name.
secrets_js_text_name_for_token(endpoint_name, github_token) ==
    <<"/","/"," ","C","o","n","f","i","g","u","r","a","t","i","o","n"," ","f","i","l","e"," ","f","o","r"," ","e","n","d","p","o","i","n","t"," ">>
    \o endpoint_name
    \o <<"\n","/","/"," ","S","E","C","R","E","T","_","S","O","U","R","C","E",":"," ","e","n","d","p","o","i","n","t","-">>
    \o endpoint_name
    \o <<"\n","/","/"," ","S","E","C","R","E","T","_","T","Y","P","E",":"," ","g","i","t","h","u","b","_","t","o","k","e","n","\n","c","o","n","s","t"," ","A","P","I","_","S","E","T","T","I","N","G","S"," ","="," ","{","\n"," "," "," "," ","t","i","m","e","o","u","t",":"," ","3","0","0","0","0",",","\n"," "," "," "," ","r","e","t","r","i","e","s",":"," ","3",",","\n"," "," "," "," ","g","i","t","h","u","b","_","t","o","k","e","n",":"," ","\"">>
    \o github_token
    \o <<"\"",",","\n"," "," "," "," ","e","n","d","p","o","i","n","t","_","i","d",":"," ","\"">>
    \o endpoint_name
    \o <<"\"","\n","}",";","\n","\n","/","/"," ","P","u","r","e"," ","s","e","c","r","e","t"," ","f","o","r"," ","p","a","t","t","e","r","n"," ","m","a","t","c","h","i","n","g"," ","(","s","o","u","r","c","e",":"," ","e","n","d","p","o","i","n","t","-">>
    \o endpoint_name
    \o <<")","\n","c","o","n","s","t"," ","E","N","D","P","O","I","N","T","_","S","E","C","R","E","T"," ","="," ","\"">>
    \o endpoint_name
    \o <<"\"",";","\n">>

\* the text create_endpoint_secrets_js writes, lines 58-70
secrets_js_text(endpoint_name, github_token) ==
    <<"/","/"," ","C","o","n","f","i","g","u","r","a","t","i","o","n"," ","f","i","l","e"," ","f","o","r"," ","e","n","d","p","o","i","n","t"," ">>
    \o endpoint_name
    \o <<"\n","/","/"," ","S","E","C","R","E","T","_","S","O","U","R","C","E",":"," ","e","n","d","p","o","i","n","t","-">>
    \o endpoint_name
    \o <<"\n","/","/"," ","S","E","C","R","E","T","_","T","Y","P","E",":"," ","g","i","t","h","u","b","_","t","o","k","e","n","\n","c","o","n","s","t"," ","A","P","I","_","S","E","T","T","I","N","G","S"," ","="," ","{","\n"," "," "," "," ","t","i","m","e","o","u","t",":"," ","3","0","0","0","0",",","\n"," "," "," "," ","r","e","t","r","i","e","s",":"," ","3",",","\n"," "," "," "," ","g","i","t","h","u","b","_","t","o","k","e","n",":"," ","\"">>
    \o github_token
    \o <<"\"",",","\n"," "," "," "," ","e","n","d","p","o","i","n","t","_","i","d",":"," ","\"">>
    \o endpoint_name
    \o <<"\"","\n","}",";","\n","\n","/","/"," ","P","u","r","e"," ","s","e","c","r","e","t"," ","f","o","r"," ","p","a","t","t","e","r","n"," ","m","a","t","c","h","i","n","g"," ","(","s","o","u","r","c","e",":"," ","e","n","d","p","o","i","n","t","-">>
    \o endpoint_name
    \o <<")","\n","c","o","n","s","t"," ","E","N","D","P","O","I","N","T","_","S","E","C","R","E","T"," ","="," ","\"">>
    \o github_token
    \o <<"\"",";","\n">>

\* the text endpoint_six_static writes to static/secrets-ep6.js, lines 350-359
secrets_ep6_js_text(static_github_token) ==
    <<"/","/"," ","C","o","n","f","i","g","u","r","a","t","i","o","n"," ","f","i","l","e"," ","f","o","r"," ","e","n","d","p","o","i","n","t"," ","6"," ","(","s","t","a","t","i","c"," ","s","e","c","r","e","t","s",")","\n","c","o","n","s","t"," ","A","P","I","_","S","E","T","T","I","N","G","S"," ","="," ","{","\n"," "," "," "," ","t","i","m","e","o","u","t",":"," ","3","0","0","0","0",",","\n"," "," "," "," ","r","e","t","r","i","e","s",":"," ","3",",","\n"," "," "," "," ","g","i","t","h","u","b","_","t","o","k","e","n",":"," ","\"">>
    \o static_github_token
    \o <<"\"",",","\n"," "," "," "," ","e","n","d","p","o","i","n","t","_","i","d",":"," ","\"","e","p","6","-","s","t","a","t","i","c","\"","\n","}",";","\n","\n","c","o","n","s","t"," ","E","N","D","P","O","I","N","T","_","S","E","C","R","E","T"," ","="," ","\"","e","p","6","-","s","t","a","t","i","c","-">>
    \o static_github_token
    \o <<"\"",";","\n">>

\* The document a view function returns from its locals L.
html_content(h, L) ==
    CASE h = "endpoint_one" -> endpoint_one_html(L)
      [] h = "endpoint_two" -> endpoint_two_json(L)
      [] h = "endpoint_three" -> endpoint_three_html(L)
      [] h = "endpoint_four" -> endpoint_four_html(L)
      [] h = "endpoint_six_static" -> endpoint_six_static_html(L)
      [] h = "endpoint_seven_fixed_patterns" -> endpoint_seven_fixed_patterns_html(L)
      [] OTHER -> endpoint_eight_fixed_patterns_no_groups_html(L)

\* The count a response announces: "Total Secrets: N" of the page, "total_secrets" of the JSON.
total_secrets(h) ==
    CASE h = "endpoint_one" -> 6
      [] h = "endpoint_two" -> 5
      [] h = "endpoint_three" -> 6
      [] h = "endpoint_four" -> 17
      [] h = "endpoint_six_static" -> 11
      [] h = "endpoint_seven_fixed_patterns" -> 16
      [] OTHER -> 5

\* ------------------------------------------------------------ the registry
None == <<>>

NewEntry(secret_type, secret_value, location, now) ==
    [type |-> secret_type, value |-> secret_value, location |-> location, logged_at |-> now]

\* d[k] = v of a dict
DictSet(d, k, v) == [x \in DOMAIN d \cup {k} |-> IF x = k THEN v ELSE d[x]]

\* The registry as json.dump and jsonify write it: the lists by value. items is
\* the dict of names to list objects, h the list objects.
Serialise(generated_at, items, h) ==
    [generated_at |-> generated_at,
     endpoints |-> [e \in DOMAIN items |-> h[items[e]]]]

\* The list the registry holds for endpoint e; empty when it has no key e.
entriesFor(e) ==
    IF e \in DOMAIN SECRET_REGISTRY.endpoints
    THEN heap[SECRET_REGISTRY.endpoints[e]]
    ELSE <<>>

\* The log_secret calls of a view function's body, in order (lines 83-85).
LogCalls(h, L) ==
    IF h = "endpoint_one"
    THEN << [secret_type |-> "api_key", secret_value |-> L.api_key, location |-> "JavaScript config"],
            [secret_type |-> "api_key", secret_value |-> L.api_key_2, location |-> "JSON string"],
            [secret_type |-> "api_key", secret_value |-> L.api_key_3, location |-> "Escaped JSON"] >>
    ELSE << >>

\* The view functions that call create_endpoint_secrets_js.
UsesCreateJs(h) ==
    h \in {"endpoint_one", "endpoint_three", "endpoint_four", "endpoint_seven_fixed_patterns"}

js_location(endpoint_name) == "secrets-" \o endpoint_name \o ".js"

NoFrame == [endpoint |-> "", secret_type |-> "", secret_value |-> <<>>, location |-> "",
            ret |-> "", k |-> 0, lst |-> 0]
NoFile == [path |-> "", data |-> <<>>]
NoLocals == [endpoint_github_token |-> <<>>]
NoResp == [kind |-> "none"]

\* An absent or truncated file has no content.
Empty == <<>>

\* Where a view function goes on after k log_secret calls of its body: the next
\* call, create_endpoint_secrets_js, the file of endpoint six, or the document.
Continue(h, L, k) ==
    IF k < Len(LogCalls(h, L))
    THEN [pc |-> "l18",
          frame |-> [endpoint |-> endpoint_id(h),
                     secret_type |-> LogCalls(h, L)[k + 1].secret_type,
                     secret_value |-> LogCalls(h, L)[k + 1].secret_value,
                     location |-> LogCalls(h, L)[k + 1].location,
                     ret |-> "body", k |-> k + 1, lst |-> 0]]
    ELSE [pc |-> IF UsesCreateJs(h) THEN "l52"
                 ELSE IF h = "endpoint_six_static" THEN "l349"
                 ELSE "render",
          frame |-> NoFrame]

\* The history of calls after a view function went on with c: a call made is recorded.
Issue(iss, c) ==
    IF c.pc = "l18"
    THEN [iss EXCEPT ![c.frame.endpoint] =
            Append(@, [type |-> c.frame.secret_type, value |-> c.frame.secret_value,
                       location |-> c.frame.location])]
    ELSE iss

\* The secret values a document line list embeds.
DocSecrets(doc) == UNION {Range(doc[i].secrets) : i \in 1..Len(doc)}

\* ------------------------------------------------------------ initial state
Init ==
    /\ SECRET_REGISTRY = [generated_at |-> None, endpoints |-> <<>>]
    /\ heap = <<>>
    /\ registry_file = Empty
    /\ static_js = [e \in EndpointIds |-> Empty]
    /\ rng \in 0..MaxSeed
    /\ clock = 1
    /\ pc = [t \in Threads |-> "idle"]
    /\ handler = [t \in Threads |-> ""]
    /\ locals = [t \in Threads |-> NoLocals]
    /\ frame = [t \in Threads |-> NoFrame]
    /\ fobj = [t \in Threads |-> NoFile]
    /\ resp = [t \in Threads |-> NoResp]
    /\ started = 0
    /\ reads = 0
    /\ issued = [e \in EndpointIds |-> <<>>]
    /\ writes = 0
    /\ delivered = {}
    /\ running = 0
    /\ preempts = 0

\* ------------------------------------------------------------ requests
\* The server accepts a request and hands it to thread t.
StartRequest(t, h) ==
    /\ pc[t] = "idle"
    /\ \A u \in Threads : u < t => pc[u] # "idle"
    /\ IF h = "secret_registry"
       THEN reads < MaxReads /\ reads' = reads + 1 /\ started' = started
       ELSE started < MaxRequests /\ started' = started + 1 /\ reads' = reads
    /\ handler' = [handler EXCEPT ![t] = h]
    /\ pc' = [pc EXCEPT ![t] = IF h = "secret_registry" THEN "l555" ELSE "gen"]
    /\ resp' = [resp EXCEPT ![t] = NoResp]
    /\ locals' = [locals EXCEPT ![t] = NoLocals]
    /\ UNCHANGED <<SECRET_REGISTRY, heap, registry_file, static_js, rng, clock, frame,
                   fobj, issued, writes, delivered>>

\* The assignments that open a view function: its generate_* calls or literals.
Generate(t) ==
    /\ pc[t] = "gen"
    /\ LET L == HandlerLocals(handler[t], rng) @@ NoLocals
           c == Continue(handler[t], L, 0)
       IN  /\ locals' = [locals EXCEPT ![t] = L]
           /\ pc' = [pc EXCEPT ![t] = c.pc]
           /\ frame' = [frame EXCEPT ![t] = c.frame]
           /\ issued' = Issue(issued, c)
    /\ rng' = RngAt(rng, HandlerDraws(handler[t]))
    /\ UNCHANGED <<SECRET_REGISTRY, heap, registry_file, static_js, clock, handler,
                   fobj, resp, started, writes, delivered>>

\* ------------------------------------------------------------ log_secret
\* line 18: if SECRET_REGISTRY["generated_at"] is None
log_secret_18(t) ==
    /\ pc[t] = "l18"
    /\ pc' = [pc EXCEPT ![t] = IF SECRET_REGISTRY.generated_at = None THEN "l19" ELSE "l21"]
    /\ UNCHANGED <<SECRET_REGISTRY, heap, registry_file, static_js, rng, clock, handler,
                   locals, frame, fobj, resp, started, issued, writes, delivered>>

\* line 19: SECRET_REGISTRY["generated_at"] = datetime.now().isoformat()
log_secret_19(t) ==
    /\ pc[t] = "l19"
    /\ SECRET_REGISTRY' = [SECRET_REGISTRY EXCEPT !.generated_at = <<clock>>]
    /\ clock' = clock + 1
    /\ writes' = writes + 1
    /\ pc' = [pc EXCEPT ![t] = "l21"]
    /\ UNCHANGED <<heap, registry_file, static_js, rng, handler, locals, frame, fobj,
                   resp, started, issued, delivered>>

\* log_secret without the test of line 21: the list is initialised on every call.
log_secret_21_unchecked(t) ==
    /\ pc[t] = "l21"
    /\ pc' = [pc EXCEPT ![t] = "l22"]
    /\ UNCHANGED <<SECRET_REGISTRY, heap, registry_file, static_js, rng, clock, handler,
                   locals, frame, fobj, resp, started, issued, writes, delivered>>

\* line 21: if endpoint not in SECRET_REGISTRY["endpoints"]
log_secret_21(t) ==
    /\ pc[t] = "l21"
    /\ pc' = [pc EXCEPT ![t] = IF frame[t].endpoint \notin DOMAIN SECRET_REGISTRY.endpoints
                               THEN "l22" ELSE "l24"]
    /\ UNCHANGED <<SECRET_REGISTRY, heap, registry_file, static_js, rng, clock, handler,
                   locals, frame, fobj, resp, started, issued, writes, delivered>>

\* line 22: SECRET_REGISTRY["endpoints"][endpoint] = []
log_secret_22(t) ==
    /\ pc[t] = "l22"
    /\ heap' = Append(heap, <<>>)
    /\ SECRET_REGISTRY' = [SECRET_REGISTRY EXCEPT
                             !.endpoints = DictSet(@, frame[t].endpoint, Len(heap) + 1)]
    /\ writes' = writes + 1
    /\ pc' = [pc EXCEPT ![t] = "l24"]
    /\ UNCHANGED <<registry_file, static_js, rng, clock, handler, locals, frame, fobj,
                   resp, started, issued, delivered>>

\* line 24, first half: SECRET_REGISTRY["endpoints"][endpoint] is evaluated to a list object
log_secret_24_load(t) ==
    /\ pc[t] = "l24"
    /\ frame' = [frame EXCEPT ![t].lst = SECRET_REGISTRY.endpoints[frame[t].endpoint]]
    /\ pc' = [pc EXCEPT ![t] = "l24_append"]
    /\ UNCHANGED <<SECRET_REGISTRY, heap, registry_file, static_js, rng, clock, handler,
                   locals, fobj, resp, started, issued, writes, delivered>>

\* lines 24-29, second half: the entry is built and appended to that list object
log_secret_24_append(t) ==
    /\ pc[t] = "l24_append"
    /\ LET entry == NewEntry(frame[t].secret_type, frame[t].secret_value,
                             frame[t].location, clock)
       IN  heap' = [heap EXCEPT ![frame[t].lst] = Append(@, entry)]
    /\ clock' = clock + 1
    /\ writes' = writes + 1
    /\ pc' = [pc EXCEPT ![t] = "l32"]
    /\ UNCHANGED <<SECRET_REGISTRY, registry_file, static_js, rng, handler, locals, frame,
                   fobj, resp, started, issued, delivered>>

\* line 32: open('static/secret_registry.json', 'w') truncates the file
log_secret_32(t) ==
    /\ pc[t] = "l32"
    /\ registry_file' = Empty
    /\ fobj' = [fobj EXCEPT ![t] = [path |-> "static/secret_registry.json", data |-> Empty]]
    /\ pc' = [pc EXCEPT ![t] = "l33"]
    /\ UNCHANGED <<SECRET_REGISTRY, heap, static_js, rng, clock, handler, locals, frame,
                   resp, started, issued, writes, delivered>>

\* line 33: json.dump(SECRET_REGISTRY, f, indent=2) fills the buffer of the file object
log_secret_33(t) ==
    /\ pc[t] = "l33"
    /\ fobj' = [fobj EXCEPT ![t].data =
                  <<Serialise(SECRET_REGISTRY.generated_at, SECRET_REGISTRY.endpoints, heap)>>]
    /\ pc' = [pc EXCEPT ![t] = "l33_exit"]
    /\ UNCHANGED <<SECRET_REGISTRY, heap, registry_file, static_js, rng, clock, handler,
                   locals, frame, resp, started, issued, writes, delivered>>

\* end of the with block of line 32: the buffer is flushed, the file closed and
\* log_secret returns to its caller
log_secret_33_exit(t) ==
    /\ pc[t] = "l33_exit"
    /\ registry_file' = fobj[t].data
    /\ fobj' = [fobj EXCEPT ![t] = NoFile]
    /\ IF frame[t].ret = "body"
       THEN LET c == Continue(handler[t], locals[t], frame[t].k)
            IN  /\ pc' = [pc EXCEPT ![t] = c.pc]
                /\ frame' = [frame EXCEPT ![t] = c.frame]
                /\ issued' = Issue(issued, c)
       ELSE /\ pc' = [pc EXCEPT ![t] = "l57"]
            /\ frame' = [frame EXCEPT ![t] = NoFrame]
            /\ issued' = issued
    /\ UNCHANGED <<SECRET_REGISTRY, heap, static_js, rng, clock, handler, locals, resp,
                   started, writes, delivered>>

\* ------------------------------------------------ create_endpoint_secrets_js
\* lines 52-55: the token is generated and log_secret is called with it
create_endpoint_secrets_js_52(t) ==
    /\ pc[t] = "l52"
    /\ LET github_token == generate_github_token(rng)
           endpoint_name == endpoint_id(handler[t])
           call == [pc |-> "l18",
                    frame |-> [endpoint |-> endpoint_name, secret_type |-> "github_token",
                               secret_value |-> github_token,
                               location |-> js_location(endpoint_name),
                               ret |-> "create_endpoint_secrets_js", k |-> 0, lst |-> 0]]
       IN  /\ locals' = [locals EXCEPT ![t].endpoint_github_token = github_token]
           /\ frame' = [frame EXCEPT ![t] = call.frame]
           /\ pc' = [pc EXCEPT ![t] = call.pc]
           /\ issued' = Issue(issued, call)
    /\ rng' = RngAt(rng, 36)
    /\ UNCHANGED <<SECRET_REGISTRY, heap, registry_file, static_js, clock, handler, fobj,
                   resp, started, writes, delivered>>

\* line 57: open(filename, 'w') truncates the artifact
create_endpoint_secrets_js_57(t) ==
    /\ pc[t] = "l57"
    /\ static_js' = [static_js EXCEPT ![endpoint_id(handler[t])] = Empty]
    /\ fobj' = [fobj EXCEPT ![t] = [path |-> js_location(endpoint_id(handler[t])),
                                    data |-> Empty]]
    /\ pc' = [pc EXCEPT ![t] = "l58"]
    /\ UNCHANGED <<SECRET_REGISTRY, heap, registry_file, rng, clock, handler, locals,
                   frame, resp, started, issued, writes, delivered>>

\* line 57, when the file cannot be opened: the exception ends the request
create_endpoint_secrets_js_57_fails(t) ==
    /\ pc[t] = "l57"
    /\ pc' = [pc EXCEPT ![t] = "idle"]
    /\ resp' = [resp EXCEPT ![t] = [kind |-> "error", handler |-> handler[t],
                                    L |-> locals[t]]]
    /\ locals' = [locals EXCEPT ![t] = NoLocals]
    /\ UNCHANGED <<SECRET_REGISTRY, heap, registry_file, static_js, rng, clock, handler,
                   frame, fobj, started, issued, writes, delivered>>

\* create_endpoint_secrets_js writing a token generated anew, not the logged one.
create_endpoint_secrets_js_58_new_token(t) ==
    /\ pc[t] = "l58"
    /\ fobj' = [fobj EXCEPT ![t].data =
                  secrets_js_text(endpoint_chars(endpoint_id(handler[t])),
                                  generate_github_token(rng))]
    /\ pc' = [pc EXCEPT ![t] = "l70"]
    /\ UNCHANGED <<SECRET_REGISTRY, heap, registry_file, static_js, rng, clock, handler,
                   locals, frame, resp, started, issued, writes, delivered>>

\* lines 58-70: f.write(...) fills the buffer of the file object
create_endpoint_secrets_js_58(t) ==
    /\ pc[t] = "l58"
    /\ fobj' = [fobj EXCEPT ![t].data =
                  secrets_js_text(endpoint_chars(endpoint_id(handler[t])),
                                  locals[t].endpoint_github_token)]
    /\ pc' = [pc EXCEPT ![t] = "l70"]
    /\ UNCHANGED <<SECRET_REGISTRY, heap, registry_file, static_js, rng, clock, handler,
                   locals, frame, resp, started, issued, writes, delivered>>

\* What closing a file object writes: its buffer over the start of the file.
Flush(content, data) ==
    data \o SubSeq(content, Len(data) + 1, Len(content))

\* line 70-71: the with block ends, the buffer is flushed and the token returned
create_endpoint_secrets_js_70(t) ==
    /\ pc[t] = "l70"
    /\ static_js' = [static_js EXCEPT ![endpoint_id(handler[t])] = Flush(@, fobj[t].data)]
    /\ fobj' = [fobj EXCEPT ![t] = NoFile]
    /\ delivered' = delivered \cup {locals[t].endpoint_github_token}
    /\ pc' = [pc EXCEPT ![t] = "render"]
    /\ UNCHANGED <<SECRET_REGISTRY, heap, registry_file, rng, clock, handler, locals,
                   frame, resp, started, issued, writes>>

\* ------------------------------------------------ the file of endpoint six
\* line 349: open(filename, 'w')
endpoint_six_static_349(t) ==
    /\ pc[t] = "l349"
    /\ static_js' = [static_js EXCEPT !["ep6"] = Empty]
    /\ fobj' = [fobj EXCEPT ![t] = [path |-> js_location("ep6"), data |-> Empty]]
    /\ pc' = [pc EXCEPT ![t] = "l350"]
    /\ UNCHANGED <<SECRET_REGISTRY, heap, registry_file, rng, clock, handler, locals,
                   frame, resp, started, issued, writes, delivered>>

\* line 349, when the file cannot be opened
endpoint_six_static_349_fails(t) ==
    /\ pc[t] = "l349"
    /\ pc' = [pc EXCEPT ![t] = "idle"]
    /\ resp' = [resp EXCEPT ![t] = [kind |-> "error", handler |-> handler[t],
                                    L |-> locals[t]]]
    /\ locals' = [locals EXCEPT ![t] = NoLocals]
    /\ UNCHANGED <<SECRET_REGISTRY, heap, registry_file, static_js, rng, clock, handler,
                   frame, fobj, started, issued, writes, delivered>>

\* lines 350-359: f.write(...)
endpoint_six_static_350(t) ==
    /\ pc[t] = "l350"
    /\ fobj' = [fobj EXCEPT ![t].data = secrets_ep6_js_text(locals[t].static_github_token)]
    /\ pc' = [pc EXCEPT ![t] = "l359"]
    /\ UNCHANGED <<SECRET_REGISTRY, heap, registry_file, static_js, rng, clock, handler,
                   locals, frame, resp, started, issued, writes, delivered>>

\* line 359: the with block ends
endpoint_six_static_359(t) ==
    /\ pc[t] = "l359"
    /\ static_js' = [static_js EXCEPT !["ep6"] = Flush(@, fobj[t].data)]
    /\ fobj' = [fobj EXCEPT ![t] = NoFile]
    /\ delivered' = delivered \cup {locals[t].static_github_token}
    /\ pc' = [pc EXCEPT ![t] = "render"]
    /\ UNCHANGED <<SECRET_REGISTRY, heap, registry_file, rng, clock, handler, locals,
                   frame, resp, started, issued, writes>>

\* ------------------------------------------------------------ responses
\* The view function builds its document and returns it.
Render(t) ==
    /\ pc[t] = "render"
    /\ resp' = [resp EXCEPT ![t] = [kind |-> "document", handler |-> handler[t],
                                    L |-> locals[t]]]
    /\ delivered' = delivered \cup DocSecrets(html_content(handler[t], locals[t]))
    /\ locals' = [locals EXCEPT ![t] = NoLocals]
    /\ pc' = [pc EXCEPT ![t] = "idle"]
    /\ UNCHANGED <<SECRET_REGISTRY, heap, registry_file, static_js, rng, clock, handler,
                   frame, fobj, started, issued, writes>>

\* ------------------------------------------------------------ secret_registry
\* line 555, first half: jsonify takes the items of the registry
secret_registry_555(t) ==
    /\ pc[t] = "l555"
    /\ locals' = [locals EXCEPT ![t] = [generated_at |-> SECRET_REGISTRY.generated_at,
                                        items |-> SECRET_REGISTRY.endpoints,
                                        w0 |-> writes]]
    /\ pc' = [pc EXCEPT ![t] = "l555_lists"]
    /\ UNCHANGED <<SECRET_REGISTRY, heap, registry_file, static_js, rng, clock, handler,
                   frame, fobj, resp, started, issued, writes, delivered>>

\* secret_registry stamping the registry as log_secret does in lines 18-19.
secret_registry_555_lists_stamping(t) ==
    /\ pc[t] = "l555_lists"
    /\ resp' = [resp EXCEPT ![t] =
                  [kind |-> "registry",
                   body |-> Serialise(locals[t].generated_at, locals[t].items, heap),
                   w0 |-> locals[t].w0, w1 |-> writes]]
    /\ SECRET_REGISTRY' = [SECRET_REGISTRY EXCEPT !.generated_at = <<clock>>]
    /\ locals' = [locals EXCEPT ![t] = NoLocals]
    /\ pc' = [pc EXCEPT ![t] = "idle"]
    /\ UNCHANGED <<heap, registry_file, static_js, rng, clock, handler,
                   frame, fobj, started, issued, writes, delivered>>

\* line 555, second half: jsonify writes the lists out and the response is returned
secret_registry_555_lists(t) ==
    /\ pc[t] = "l555_lists"
    /\ resp' = [resp EXCEPT ![t] =
                  [kind |-> "registry",
                   body |-> Serialise(locals[t].generated_at, locals[t].items, heap),
                   w0 |-> locals[t].w0, w1 |-> writes]]
    /\ locals' = [locals EXCEPT ![t] = NoLocals]
    /\ pc' = [pc EXCEPT ![t] = "idle"]
    /\ UNCHANGED <<SECRET_REGISTRY, heap, registry_file, static_js, rng, clock, handler,
                   frame, fobj, started, issued, writes, delivered>>

\* The scheduler runs thread t. Taking the processor from a thread that has not
\* finished its request is a pre-emption.
Schedule(t) ==
    /\ running' = IF pc'[t] = "idle" THEN 0 ELSE t
    /\ IF running \notin {0, t} /\ pc[running] # "idle"
       THEN preempts < MaxPreempt /\ preempts' = preempts + 1
       ELSE preempts' = preempts

\* One step of a request thread, taken when the scheduler runs the thread.
Run ==
    \/ \E t \in Threads : Generate(t) /\ Schedule(t) /\ UNCHANGED reads
    \/ \E t \in Threads : log_secret_18(t) /\ Schedule(t) /\ UNCHANGED reads
    \/ \E t \in Threads : log_secret_19(t) /\ Schedule(t) /\ UNCHANGED reads
    \/ \E t \in Threads : log_secret_21(t) /\ Schedule(t) /\ UNCHANGED reads
    \/ \E t \in Threads : log_secret_22(t) /\ Schedule(t) /\ UNCHANGED reads
    \/ \E t \in Threads : log_secret_24_load(t) /\ Schedule(t) /\ UNCHANGED reads
    \/ \E t \in Threads : log_secret_24_append(t) /\ Schedule(t) /\ UNCHANGED reads
    \/ \E t \in Threads : log_secret_32(t) /\ Schedule(t) /\ UNCHANGED reads
    \/ \E t \in Threads : log_secret_33(t) /\ Schedule(t) /\ UNCHANGED reads
    \/ \E t \in Threads : log_secret_33_exit(t) /\ Schedule(t) /\ UNCHANGED reads
    \/ \E t \in Threads : create_endpoint_secrets_js_52(t) /\ Schedule(t) /\ UNCHANGED reads
    \/ \E t \in Threads : create_endpoint_secrets_js_57(t) /\ Schedule(t) /\ UNCHANGED reads
    \/ \E t \in Threads : create_endpoint_secrets_js_57_fails(t) /\ Schedule(t) /\ UNCHANGED reads
    \/ \E t \in Threads : create_endpoint_secrets_js_58(t) /\ Schedule(t) /\ UNCHANGED reads
    \/ \E t \in Threads : create_endpoint_secrets_js_70(t) /\ Schedule(t) /\ UNCHANGED reads
    \/ \E t \in Threads : endpoint_six_static_349(t) /\ Schedule(t) /\ UNCHANGED reads
    \/ \E t \in Threads : endpoint_six_static_349_fails(t) /\ Schedule(t) /\ UNCHANGED reads
    \/ \E t \in Threads : endpoint_six_static_350(t) /\ Schedule(t) /\ UNCHANGED reads
    \/ \E t \in Threads : endpoint_six_static_359(t) /\ Schedule(t) /\ UNCHANGED reads
    \/ \E t \in Threads : Render(t) /\ Schedule(t) /\ UNCHANGED reads
    \/ \E t \in Threads : secret_registry_555(t) /\ Schedule(t) /\ UNCHANGED reads
    \/ \E t \in Threads : secret_registry_555_lists(t) /\ Schedule(t) /\ UNCHANGED reads

Next ==
    \/ \E t \in Threads, h \in Handlers : StartRequest(t, h) /\ UNCHANGED <<running, preempts>>
    \/ Run

Spec == Init /\ [][Next]_vars

\* Builds of the same scenario never overlap: a request for a scenario is accepted
\* only while no other thread serves that scenario.
StartDistinct(t, h) ==
    /\ \A u \in Threads : pc[u] # "idle" => handler[u] # h
    /\ StartRequest(t, h)

NextDistinct ==
    \/ \E t \in Threads, h \in Handlers : StartDistinct(t, h) /\ UNCHANGED <<running, preempts>>
    \/ Run

SpecDistinct == Init /\ [][NextDistinct]_vars

\* The server handles one request at a time: a request is accepted only while
\* every thread is idle.
StartSolo(t, h) ==
    /\ \A u \in Threads : pc[u] = "idle"
    /\ StartRequest(t, h)

NextSolo ==
    \/ \E t \in Threads, h \in Handlers : StartSolo(t, h) /\ UNCHANGED <<running, preempts>>
    \/ Run

SpecSolo == Init /\ [][NextSolo]_vars

\* ------------------------------------------------------------ pattern catalog
\* The shape of each kind of secret a detector matches: prefix, body alphabet and
\* body length.
PatternSpec(kind) ==
    CASE kind = "aws_key" ->
           [prefix |-> <<"A","K","I","A">>,
            bodyAlphabet |-> UpperDigits, bodyLength |-> 16]
      [] kind = "github_token" ->
           [prefix |-> <<"g","h","p","_">>,
            bodyAlphabet |-> LettersDigits, bodyLength |-> 36]
      [] kind = "api_key" ->
           [prefix |-> <<>>,
            bodyAlphabet |-> LettersDigits, bodyLength |-> 32]

KnownKinds == {"aws_key", "github_token", "api_key"}

PatternLength(kind) == Len(PatternSpec(kind).prefix) + PatternSpec(kind).bodyLength

\* The pattern of kind matches text at position i.
MatchAt(kind, text, i) ==
    LET p == PatternSpec(kind)
    IN  /\ i + PatternLength(kind) - 1 <= Len(text)
        /\ \A j \in 1..Len(p.prefix) : text[i + j - 1] = p.prefix[j]
        /\ \A j \in 1..p.bodyLength : text[i + Len(p.prefix) + j - 1] \in p.bodyAlphabet

\* v as a whole satisfies the pattern of kind.
Matches(kind, v) == Len(v) = PatternLength(kind) /\ MatchAt(kind, v, 1)

\* The matches a scan of text with the pattern of kind yields, left to right,
\* each scan resuming behind the previous match.
RECURSIVE ScanFrom(_, _, _)
ScanFrom(kind, text, from) ==
    LET n == PatternLength(kind)
        starts == {i \in from..(Len(text) - n + 1) : MatchAt(kind, text, i)}
    IN  IF starts = {} THEN <<>>
        ELSE LET i == CHOOSE i \in starts : \A k \in starts : i <= k
             IN  <<SubSeq(text, i, i + n - 1)>> \o ScanFrom(kind, text, i + n)

FindAll(kind, text) == ScanFrom(kind, text, 1)

\* v occurs in text at position i; the positions where v occurs in text.
OccursAt(text, v, i) ==
    /\ i + Len(v) - 1 <= Len(text)
    /\ \A j \in 1..Len(v) : text[i + j - 1] = v[j]

Occurrences(text, v) == {i \in 1..Len(text) : OccursAt(text, v, i)}

Contains(text, v) == \E i \in 1..Len(text) : OccursAt(text, v, i)

IsPrefix(a, b) == Len(a) <= Len(b) /\ \A i \in 1..Len(a) : a[i] = b[i]

\* ------------------------------------------------------------ responses, read back
Documents == {t \in Threads : resp[t].kind = "document"}

\* The document and the artifact text of the response thread t returned.
DocOf(t) == html_content(resp[t].handler, resp[t].L)

ArtifactOf(t) ==
    IF UsesCreateJs(resp[t].handler)
    THEN secrets_js_text(endpoint_chars(endpoint_id(resp[t].handler)),
                         resp[t].L.endpoint_github_token)
    ELSE IF resp[t].handler = "endpoint_six_static"
         THEN secrets_ep6_js_text(resp[t].L.static_github_token)
         ELSE <<>>

\* The token the artifact of the response of thread t was written with.
ArtifactToken(t) ==
    IF UsesCreateJs(resp[t].handler) THEN resp[t].L.endpoint_github_token
    ELSE IF resp[t].handler = "endpoint_six_static" THEN resp[t].L.static_github_token
    ELSE <<>>

\* Number of places in a document, and in an artifact, where a secret stands.
DocOccurrences(doc) ==
    Cardinality({ij \in (1..Len(doc)) \X (1..2) : ij[2] <= Len(doc[ij[1]].secrets)})

ArtifactOccurrences(t) ==
    IF ArtifactToken(t) = <<>> THEN 0
    ELSE Cardinality(Occurrences(ArtifactOf(t), ArtifactToken(t)))

\* ------------------------------------------------------------ claims

\* C1: for every scenario build, after any sequence of earlier requests, the
\* total secret count the response announces equals the number of secret
\* occurrences embedded in the build's document and artifact, and equals the
\* number of registry entries held under the scenario's id.
C1_TotalIsCountAndRegistry ==
    \A t \in Documents :
        /\ total_secrets(resp[t].handler) = DocOccurrences(DocOf(t)) + ArtifactOccurrences(t)
        /\ total_secrets(resp[t].handler) = Len(entriesFor(endpoint_id(resp[t].handler)))

\* C2: the registry is append-only: once log_secret has appended an entry to a
\* scenario's list, the entry stays in the list, at the same position and with
\* the same type, value, location and timestamp, whatever requests follow,
\* concurrent requests to the same endpoint included.
C2_AppendOnly ==
    [][\A e \in EndpointIds : IsPrefix(entriesFor(e), entriesFor(e)')]_vars

\* The threads that are in a log_secret call that has not appended its entry yet.
Appending == {t \in Threads : pc[t] \in {"l18", "l19", "l21", "l22", "l24", "l24_append"}}

\* C3: when log_secret calls of concurrently running builds of different
\* scenarios interleave, no append is lost and no entry is corrupted: once all
\* calls have completed, each scenario's list holds exactly the entries recorded
\* for it, each with the fields it was recorded with, in the order the calls
\* were made.
C3_NoAppendLost ==
    Appending = {} =>
        \A e \in EndpointIds :
            /\ Len(entriesFor(e)) = Len(issued[e])
            /\ \A i \in 1..Len(entriesFor(e)) :
                 /\ DOMAIN entriesFor(e)[i] = {"type", "value", "location", "logged_at"}
                 /\ entriesFor(e)[i].type = issued[e][i].type
                 /\ entriesFor(e)[i].value = issued[e][i].value
                 /\ entriesFor(e)[i].location = issued[e][i].location
                 /\ entriesFor(e)[i].logged_at \in 1..(clock - 1)

\* Witness of C3: all calls have completed, and the entries of two scenarios
\* were appended in turns: one of a second scenario between two of a first.
C3_Witness ==
    /\ Appending = {}
    /\ \E e1, e2 \in EndpointIds :
         /\ e1 # e2
         /\ \E i, j \in 1..Len(entriesFor(e1)) : \E k \in 1..Len(entriesFor(e2)) :
              /\ entriesFor(e1)[i].logged_at < entriesFor(e2)[k].logged_at
              /\ entriesFor(e2)[k].logged_at < entriesFor(e1)[j].logged_at

\* C4: recording follows embedding: a secret is appended to the registry only
\* after it has been embedded in the returned content or written into its
\* artifact, so a build that fails leaves no entry for a secret never delivered.
C4_RecordAfterEmbed ==
    \A e \in EndpointIds : \A i \in 1..Len(entriesFor(e)) :
        entriesFor(e)[i].value \in delivered

\* The view functions whose secrets are fixed literals.
FixedHandlers == {"endpoint_six_static", "endpoint_seven_fixed_patterns",
                  "endpoint_eight_fixed_patterns_no_groups"}

\* C5: a fixed literal is accepted for a kind only if it satisfies the kind's
\* pattern: a build with a literal that does not match fails and embeds nothing.
C5_FixedLiteralsMatch ==
    \A t \in Documents :
        resp[t].handler \in FixedHandlers =>
            \A i \in 1..Len(DocOf(t)) :
                DocOf(t)[i].kind \in KnownKinds =>
                    \A j \in 1..Len(DocOf(t)[i].secrets) :
                        Matches(DocOf(t)[i].kind, DocOf(t)[i].secrets[j])

\* The view functions whose secrets come from the generate_* functions, and the
\* names of their locals by the function that generated them.
GeneratedHandlers == {"endpoint_one", "endpoint_two", "endpoint_three", "endpoint_four"}
AwsNames == {"aws_key", "aws_key_2", "aws_key_3"}
ApiNames == {"api_key", "api_key_2", "api_key_3"}
GithubNames == {"github_token", "github_token_2", "github_token_3"}

ConformsAws(v) ==
    /\ Len(v) = 20
    /\ SubSeq(v, 1, 4) = <<"A","K","I","A">>
    /\ \A i \in 5..20 : v[i] \in UpperDigits

ConformsGithub(v) ==
    /\ Len(v) = 40
    /\ SubSeq(v, 1, 4) = <<"g","h","p","_">>
    /\ \A i \in 5..40 : v[i] \in LettersDigits

ConformsApi(v) ==
    /\ Len(v) = 32
    /\ \A i \in 1..32 : v[i] \in LettersDigits

\* C6: for every secret kind and every random draw the generated value conforms
\* to the kind's pattern: generate_aws_key returns 'AKIA' and 16 characters of
\* [A-Z0-9], generate_github_token 'ghp_' and 36 characters of [A-Za-z0-9],
\* generate_api_key 32 characters of [A-Za-z0-9].
C6_GeneratedConform ==
    \A t \in Threads :
        /\ handler[t] \in GeneratedHandlers =>
             \A n \in DOMAIN locals[t] :
                 /\ n \in AwsNames => ConformsAws(locals[t][n])
                 /\ n \in ApiNames => ConformsApi(locals[t][n])
                 /\ n \in GithubNames => ConformsGithub(locals[t][n])
        /\ "endpoint_github_token" \in DOMAIN locals[t]
             /\ locals[t].endpoint_github_token # <<>>
             => ConformsGithub(locals[t].endpoint_github_token)

\* Witness of C6: a view function holds generated values of all three kinds and
\* the generated token of its artifact.
C6_Witness ==
    \E t \in Threads :
        /\ handler[t] = "endpoint_four"
        /\ pc[t] = "render"
        /\ locals[t].aws_key_2 # locals[t].aws_key
        /\ Len(locals[t].endpoint_github_token) > 0

ArtifactPath(e) ==
    <<"/","s","t","a","t","i","c","/","s","e","c","r","e","t","s","-">>
    \o endpoint_chars(e) \o <<".","j","s">>

\* C8, in the returned response: the value produced for the artifact is not in
\* the document text, it is in the text written to the artifact, and the
\* document references the artifact by its path.
C8_InResponse ==
    \A t \in Documents :
        ArtifactToken(t) # <<>> =>
            /\ \A i \in 1..Len(DocOf(t)) : ~Contains(DocOf(t)[i].text, ArtifactToken(t))
            /\ Contains(ArtifactOf(t), ArtifactToken(t))
            /\ \E i \in 1..Len(DocOf(t)) :
                 /\ DocOf(t)[i].context = "ExternalFileReference"
                 /\ Contains(DocOf(t)[i].text, ArtifactPath(endpoint_id(resp[t].handler)))

\* C8, in the file: when a build has written and closed its artifact, the file
\* static/secrets-<endpoint>.js contains the value.
C8_InFile ==
    \A t \in Threads :
        /\ pc[t] = "l70" /\ pc'[t] = "render" =>
             Contains(static_js'[endpoint_id(handler[t])], locals[t].endpoint_github_token)
        /\ pc[t] = "l359" /\ pc'[t] = "render" =>
             Contains(static_js'["ep6"], locals[t].static_github_token)

\* C8: for the external-file context, the secret value produced for the
\* artifact never appears in the returned document text; the value is contained
\* in the companion artifact static/secrets-<endpoint>.js, and the document
\* references that artifact by its path.
C8_TokenOnlyInArtifact == []C8_InResponse /\ [][C8_InFile]_vars

\* Witness of C8: a document that references an artifact has been returned, and
\* the file holds the token of that build.
C8_Witness ==
    \E t \in Documents :
        /\ UsesCreateJs(resp[t].handler)
        /\ Contains(static_js[endpoint_id(resp[t].handler)], resp[t].L.endpoint_github_token)

\* The responses of /secret-registry during which log_secret updated nothing.
QuietReads == {t \in Threads : resp[t].kind = "registry" /\ resp[t].w0 = resp[t].w1}

\* C9: registry reads are idempotent and do not change state: two consecutive
\* reads with no log_secret call between them return identical contents, and a
\* read leaves the registry unchanged.
C9_ReadsIdempotent ==
    /\ \A t1, t2 \in QuietReads : resp[t1].w0 = resp[t2].w0 => resp[t1].body = resp[t2].body
    /\ \A t \in QuietReads :
         resp[t].w0 = writes =>
             resp[t].body = Serialise(SECRET_REGISTRY.generated_at,
                                      SECRET_REGISTRY.endpoints, heap)

\* Witness of C9: two reads of a registry that holds entries, with no update
\* between them.
C9_Witness ==
    \E t1, t2 \in QuietReads :
        /\ t1 # t2
        /\ resp[t1].w0 = resp[t2].w0
        /\ \E e \in DOMAIN resp[t1].body.endpoints : Len(resp[t1].body.endpoints[e]) > 0

\* C10: a registry read that runs concurrently with log_secret calls observes a
\* consistent prefix of the appends: every entry it returns carries all four
\* fields, and for each scenario the returned list is a prefix of the list any
\* later read returns.
C10_ConsistentPrefix ==
    \A t \in Threads :
        resp[t].kind = "registry" =>
            \A e \in DOMAIN resp[t].body.endpoints :
                /\ \A i \in 1..Len(resp[t].body.endpoints[e]) :
                     DOMAIN resp[t].body.endpoints[e][i] = {"type", "value", "location", "logged_at"}
                /\ IsPrefix(resp[t].body.endpoints[e], entriesFor(e))

\* The threads that are in a log_secret call.
InLogSecret ==
    {t \in Threads : pc[t] \in {"l18", "l19", "l21", "l22", "l24", "l24_append",
                                "l32", "l33", "l33_exit"}}

\* C11: whenever no log_secret call is in progress, after any sequence of
\* log_secret calls, those of concurrent requests included, the file
\* static/secret_registry.json holds one complete document equal to the
\* registry in memory: the generation timestamp and, per scenario id, the
\* ordered list of records.
C11_FileEqualsRegistry ==
    InLogSecret = {} /\ writes > 0 =>
        registry_file = <<Serialise(SECRET_REGISTRY.generated_at,
                                    SECRET_REGISTRY.endpoints, heap)>>

\* The endpoints whose artifact create_endpoint_secrets_js writes, and the
\* entries the registry holds for the artifact of endpoint e.
JsEndpoints == {endpoint_id(h) : h \in {g \in Handlers : UsesCreateJs(g)}}

JsEntries(e) == SelectSeq(entriesFor(e), LAMBDA x : x.location = js_location(e))

\* The threads that serve a request for endpoint e.
Building(e) == {t \in Threads : pc[t] # "idle" /\ endpoint_id(handler[t]) = e}

\* C12: whenever no build of an endpoint is in progress, the GitHub token
\* written in the endpoint's artifact file static/secrets-<endpoint>.js is the
\* value of the most recently appended registry entry of that endpoint with
\* location secrets-<endpoint>.js, after any interleaving of concurrent requests
\* to the endpoint.
C12_ArtifactHoldsLatestToken ==
    \A e \in JsEndpoints :
        Building(e) = {} /\ static_js[e] # Empty =>
            /\ JsEntries(e) # <<>>
            /\ Contains(static_js[e], JsEntries(e)[Len(JsEntries(e))].value)

\* C13, the steps: once generated_at is set, no step changes it.
C13_WrittenOnce ==
    SECRET_REGISTRY.generated_at # None =>
        SECRET_REGISTRY'.generated_at = SECRET_REGISTRY.generated_at

\* C13, the states: generated_at is set whenever the registry holds an entry.
C13_SetWithEntries ==
    (\E e \in EndpointIds : Len(entriesFor(e)) > 0) => SECRET_REGISTRY.generated_at # None

\* C13: the registry's generated_at is written at most once: it is unset until
\* the first log_secret call, set by that call and never changed afterwards, also
\* when the first log_secret calls of two concurrent requests interleave; and it
\* is set in every state in which the registry holds at least one entry.
C13_GeneratedAtOnce == [][C13_WrittenOnce]_vars /\ []C13_SetWithEntries

====
